---- MODULE Spec2Model ----
(***************************************************************************)
(* A model of preprocess_atis_traditional.py: the MultiATIS++ loader and   *)
(* reformatter, the hi/tr dev-set loader, the MultiATIS merger and the     *)
(* writer.                                                                 *)
(*                                                                         *)
(* A Python str is a sequence of one-character strings, so that lower(),   *)
(* split(), replace() and + are computed character by character.  A Python *)
(* dict is a sequence of <<key, value>> pairs in insertion order.  A file  *)
(* name is the record of its parts: filename.split('_') / split('-') /     *)
(* split('.') are the field accesses, and a file's rows are what           *)
(* csv.reader yields after the header, if any, was skipped.                *)
(***************************************************************************)
EXTENDS Integers, Sequences, FiniteSets, TLC

VARIABLES
    pc,           \* the stage main() is in
    mapp_files,   \* MultiATIS++ files not yet opened by data_import_mapp
    reader,       \* the file being read: its split, lang and unread rows
    all_data,     \* dict lang -> dict split -> dict id -> [utterance, slots, intent]
    langs,        \* the list of ingested languages
    cursor,       \* reformat_data_mapp: samples already reformatted
    final_data,   \* [inout][split] -> list of lines; a line is its str and, as
                  \* history, the record it was made from
    hi_tr_dev,    \* [lang] -> list of dev utterances still to be matched
    n_dev,        \* rows read by get_hi_tr_dev_mapp
    n_ma,         \* rows read by data_import_ma
    files,        \* [inout][split] -> the characters written to <split>.<inout>
    ma_log,       \* history: the MultiATIS rows processed, with the branch taken
    mapp_data,    \* history: final_data as reformat_data_mapp returned it
    hi_tr_dev0,   \* history: hi_tr_dev as get_hi_tr_dev_mapp returned it
    probe         \* one record put through the formatting code on its own

vars == <<pc, mapp_files, reader, all_data, langs, cursor, final_data, hi_tr_dev,
          n_dev, n_ma, files, ma_log, mapp_data, hi_tr_dev0, probe>>

pipeline == <<pc, mapp_files, reader, all_data, langs, cursor, final_data,
              hi_tr_dev, n_dev, n_ma, files, ma_log, mapp_data, hi_tr_dev0>>

----------------------------------------------------------------------------
(* Python str and dict operations                                          *)

WhiteSpace == {" ", "\t", "\n"}

Upper ==
    [c \in {"A","B","C","D","E","F","G","H","I","J","K","L","M","N","O","P","Q",
            "R","S","T","U","V","W","X","Y","Z"} |->
       CASE c = "A" -> "a" [] c = "B" -> "b" [] c = "C" -> "c" [] c = "D" -> "d"
         [] c = "E" -> "e" [] c = "F" -> "f" [] c = "G" -> "g" [] c = "H" -> "h"
         [] c = "I" -> "i" [] c = "J" -> "j" [] c = "K" -> "k" [] c = "L" -> "l"
         [] c = "M" -> "m" [] c = "N" -> "n" [] c = "O" -> "o" [] c = "P" -> "p"
         [] c = "Q" -> "q" [] c = "R" -> "r" [] c = "S" -> "s" [] c = "T" -> "t"
         [] c = "U" -> "u" [] c = "V" -> "v" [] c = "W" -> "w" [] c = "X" -> "x"
         [] c = "Y" -> "y" [] c = "Z" -> "z"]

\* str.lower()
lower(s) == [i \in 1..Len(s) |-> IF s[i] \in DOMAIN Upper THEN Upper[s[i]] ELSE s[i]]

RECURSIVE SplitFrom(_, _, _, _)
SplitFrom(s, i, cur, acc) ==
    IF i > Len(s)
    THEN IF cur = <<>> THEN acc ELSE Append(acc, cur)
    ELSE IF s[i] \in WhiteSpace
         THEN SplitFrom(s, i + 1, <<>>, IF cur = <<>> THEN acc ELSE Append(acc, cur))
         ELSE SplitFrom(s, i + 1, Append(cur, s[i]), acc)

\* str.split(): the maximal runs of non-whitespace characters
str_split(s) == SplitFrom(s, 1, <<>>, <<>>)

StartsAt(s, i, old) ==
    /\ i + Len(old) - 1 <= Len(s)
    /\ SubSeq(s, i, i + Len(old) - 1) = old

RECURSIVE ReplaceFrom(_, _, _, _)
ReplaceFrom(s, i, old, new) ==
    IF i > Len(s) THEN <<>>
    ELSE IF StartsAt(s, i, old)
         THEN new \o ReplaceFrom(s, i + Len(old), old, new)
         ELSE <<s[i]>> \o ReplaceFrom(s, i + 1, old, new)

\* str.replace(old, new), old not empty: every occurrence, left to right
replace(s, old, new) == ReplaceFrom(s, 1, old, new)

Min(a, b) == IF a <= b THEN a ELSE b

\* zip(a, b): stops at the shorter one
zip_longest(a, b) ==
    [i \in 1..(IF Len(a) >= Len(b) THEN Len(a) ELSE Len(b)) |->
        <<IF i <= Len(a) THEN a[i] ELSE <<"?">>, IF i <= Len(b) THEN b[i] ELSE <<"?">> >>]
zip(a, b) == [i \in 1..Min(Len(a), Len(b)) |-> <<a[i], b[i]>>]

\* x in list
In(x, list) == \E i \in DOMAIN list : list[i] = x

\* list.remove(x), x in list: the first occurrence goes
remove(list, x) ==
    LET k == CHOOSE i \in DOMAIN list :
                 list[i] = x /\ \A j \in 1..(i - 1) : list[j] # x
    IN  SubSeq(list, 1, k - 1) \o SubSeq(list, k + 1, Len(list))

\* [x] * n
RECURSIVE Times(_, _)
Times(x, n) == IF n = 0 THEN <<>> ELSE <<x>> \o Times(x, n - 1)

DictHas(d, k) == \E i \in DOMAIN d : d[i][1] = k
DictGet(d, k) == d[CHOOSE i \in DOMAIN d : d[i][1] = k][2]
DictKeys(d) == [i \in DOMAIN d |-> d[i][1]]
\* d[k] = v: a new key goes last, an old one keeps its place
DictSet(d, k, v) ==
    IF DictHas(d, k)
    THEN [i \in DOMAIN d |-> IF d[i][1] = k THEN <<k, v>> ELSE d[i]]
    ELSE Append(d, <<k, v>>)
\* d.setdefault(k, v)
setdefault(d, k, v) == IF DictHas(d, k) THEN d ELSE Append(d, <<k, v>>)

----------------------------------------------------------------------------
(* The string literals of the script                                       *)

ATIS_ == <<"a", "t", "i", "s", "_">>
OUTSIDE == <<"O">>
INTENT_OPEN == <<"<", "i", "n", "t", "e", "n", "t", "-">>
LANG_OPEN == <<">", " ", "<", "l", "a", "n", "g", "-">>
DE == <<"d", "e">>
HI == <<"h", "i">>
TR == <<"t", "r">>
Hindi == <<"H", "i", "n", "d", "i">>
Turkish == <<"T", "u", "r", "k", "i", "s", "h">>
Splits == {"train", "dev", "test"}
InOut == {"input", "output"}

----------------------------------------------------------------------------
(* The formatting code                                                     *)

\* intent.replace('atis_','')
StripIntentFirstOnly(intent) ==
    IF StartsAt(intent, 1, ATIS_) THEN SubSeq(intent, Len(ATIS_) + 1, Len(intent))
    ELSE intent
StripIntent(intent) == replace(intent, ATIS_, <<>>)

\* reformat_data_mapp, the loop over zip(utt.split(), sample_data[1].split())
RECURSIVE MappSlotLoop(_, _, _)
MappSlotLoop(pairs, i, outstr) ==
    IF i > Len(pairs) THEN outstr
    ELSE MappSlotLoop(pairs, i + 1,
             IF pairs[i][2] # OUTSIDE
             THEN outstr \o pairs[i][1] \o <<" ">> \o <<"<">> \o pairs[i][2]
                         \o <<">">> \o <<" ">>
             ELSE outstr)

\* reformat_data_mapp, the body of the innermost loop: the (input, output) pair
ReformatSample(sample_data, lang) ==
    LET utt == lower(sample_data[1])
        outstr == MappSlotLoop(zip(str_split(utt), str_split(sample_data[2])), 1, <<>>)
    IN  <<utt, outstr \o INTENT_OPEN \o sample_data[3] \o LANG_OPEN \o lang \o <<">">> >>

\* data_import_ma, the loop over zip(noneng_utt.split(), noneng_slots.split())
RECURSIVE MaSlotLoopNoSpace(_, _, _)
MaSlotLoopNoSpace(pairs, i, outstr) ==
    IF i > Len(pairs) THEN outstr
    ELSE MaSlotLoopNoSpace(pairs, i + 1,
             IF pairs[i][2] # OUTSIDE
             THEN outstr \o pairs[i][1] \o <<" ", "<">> \o pairs[i][2] \o <<">">>
             ELSE outstr)
RECURSIVE MaSlotLoop(_, _, _)
MaSlotLoop(pairs, i, outstr) ==
    IF i > Len(pairs) THEN outstr
    ELSE MaSlotLoop(pairs, i + 1,
             IF pairs[i][2] # OUTSIDE
             THEN outstr \o pairs[i][1] \o <<" ", "<">> \o pairs[i][2] \o <<">", " ">>
             ELSE outstr)

\* data_import_ma, one row up to the routing: the (input, output) pair
MaFormatRow(row, lang) ==
    LET intent == StripIntent(row.intent)
        noneng_utt == row.utt
        outstr == MaSlotLoop(zip(str_split(noneng_utt), str_split(row.slots)), 1, <<>>)
    IN  <<noneng_utt, outstr \o INTENT_OPEN \o intent \o LANG_OPEN \o lang \o <<">">> >>

----------------------------------------------------------------------------
(* The inputs                                                              *)

MaxDevRows == 2     \* rows in the hi/tr dev directory
MaxMaRows == 2      \* rows in the MultiATIS directory

U_a == <<"a">>
U_Ba == <<"B", " ", "a">>
U_c == <<"c">>
T_O == <<"O">>
T_XO == <<"X", " ", "O">>
I_f == ATIS_ \o <<"f">>

\* A MultiATIS++ row: <<id, utterance, slot labels, intent>>
Row(eye_d) == <<eye_d, U_a, T_O, I_f>>
ThreeRows == <<Row(1007), Row(1008), Row(1009)>>
MappFile(split, LANG, rows) == [split |-> split, lang |-> LANG, rows |-> rows]
TestEN == MappFile("test", <<"E", "N">>, << <<1, U_Ba, T_XO, I_f>> >>)

\* The MultiATIS++ directories the runs start from, as os.walk lists them: one
\* that passes the hard-coded lookups of the loader and of the reformatter,
\* its English file listed before the German test file, one without
\* all_data['de']['test'][1007], and one whose dev split is left with two
\* samples because an id repeats.
MappInputs ==
    { << MappFile("train", <<"D", "E">>, ThreeRows), MappFile("dev", <<"D", "E">>, ThreeRows),
         TestEN, MappFile("test", <<"D", "E">>, ThreeRows) >>,
      << MappFile("train", <<"D", "E">>, ThreeRows), MappFile("test", <<"D", "E">>, <<Row(1008)>>) >>,
      << MappFile("train", <<"D", "E">>, ThreeRows), MappFile("test", <<"D", "E">>, ThreeRows),
         MappFile("dev", <<"D", "E">>, <<Row(1007), Row(1008), Row(1007)>>) >> }

\* The utterance column of the hi/tr dev files, and the files' language part
DevUtts == {U_Ba, U_c}
DevLANGs == {<<"H", "I">>, <<"T", "R">>}

\* The columns of a MultiATIS row that data_import_ma reads
MaRows ==
    { [intent |-> I_f, utt |-> U_Ba, slots |-> T_XO],
      [intent |-> I_f, utt |-> U_c, slots |-> T_O] }
MaLanguages == {Hindi, Turkish}

----------------------------------------------------------------------------
(* main()                                                                  *)

NoFile == [split |-> "", lang |-> <<>>, rows |-> <<>>]
NoProbe == [op |-> "none"]
Empty == [io \in InOut |-> [split \in Splits |-> <<>>]]

Init ==
    /\ pc = "import_mapp"
    /\ mapp_files \in MappInputs
    /\ reader = NoFile
    /\ all_data = <<>>
    /\ langs = <<>>
    /\ cursor = 0
    /\ final_data = Empty
    /\ hi_tr_dev = [lang \in {HI, TR} |-> <<>>]
    /\ n_dev = 0
    /\ n_ma = 0
    /\ files = Empty
    /\ ma_log = <<>>
    /\ mapp_data = Empty
    /\ hi_tr_dev0 = [lang \in {HI, TR} |-> <<>>]
    /\ probe = NoProbe

\* data_import_mapp: open the next file
MappOpenFile ==
    /\ pc = "import_mapp"
    /\ reader.rows = <<>>
    /\ mapp_files # <<>>
    /\ LET f == Head(mapp_files)
           lang == lower(f.lang)
           with_lang == setdefault(all_data, lang, <<>>)
       IN  /\ all_data' = DictSet(with_lang, lang,
                              setdefault(DictGet(with_lang, lang), f.split, <<>>))
           /\ reader' = [split |-> f.split, lang |-> lang, rows |-> f.rows]
    /\ mapp_files' = Tail(mapp_files)
    /\ UNCHANGED <<pc, langs, cursor, final_data, hi_tr_dev, n_dev, n_ma, files,
                   ma_log, mapp_data, hi_tr_dev0, probe>>

\* data_import_mapp: one row of the open file
LoadRow(data, lang, split, row) ==
    LET eye_d == row[1]
        utterance == row[2]
        slots == row[3]
        intent == StripIntent(row[4])
        of_lang == DictGet(data, lang)
        of_split == DictGet(of_lang, split)
    IN  DictSet(data, lang,
            DictSet(of_lang, split,
                DictSet(of_split, eye_d, <<utterance, slots, intent>>)))

MappReadRow ==
    /\ pc = "import_mapp"
    /\ reader.rows # <<>>
    /\ all_data' = LoadRow(all_data, reader.lang, reader.split, Head(reader.rows))
    /\ reader' = [reader EXCEPT !.rows = Tail(@)]
    /\ UNCHANGED <<pc, mapp_files, langs, cursor, final_data, hi_tr_dev, n_dev, n_ma,
                   files, ma_log, mapp_data, hi_tr_dev0, probe>>

\* The two logging calls of data_import_mapp raise KeyError unless these exist
LoaderLookupsPass ==
    /\ DictHas(all_data, DE)
    /\ DictHas(DictGet(all_data, DE), "test")
    /\ DictHas(DictGet(DictGet(all_data, DE), "test"), 1007)
    /\ DictHas(DictGet(all_data, DE), "train")

\* data_import_mapp: every file read; log, and return all_data and langs
MappReturn ==
    /\ pc = "import_mapp"
    /\ reader.rows = <<>>
    /\ mapp_files = <<>>
    /\ IF LoaderLookupsPass
       THEN pc' = "reformat" /\ langs' = DictKeys(all_data)
       ELSE pc' = "error" /\ langs' = langs
    /\ UNCHANGED <<mapp_files, reader, all_data, cursor, final_data, hi_tr_dev, n_dev,
                   n_ma, files, ma_log, mapp_data, hi_tr_dev0, probe>>

RECURSIVE Flatten(_)
Flatten(ss) == IF ss = <<>> THEN <<>> ELSE Head(ss) \o Flatten(Tail(ss))

\* reformat_data_mapp: the samples in the order of its three nested loops
SamplesOf(lang) ==
    LET of_lang == DictGet(all_data, lang)
    IN  Flatten([i \in DOMAIN of_lang |->
                   [j \in DOMAIN of_lang[i][2] |->
                      [lang |-> lang, split |-> of_lang[i][1],
                       sample_data |-> of_lang[i][2][j][2]]]])
Samples == Flatten([i \in DOMAIN langs |-> SamplesOf(langs[i])])

\* final_data['input'][split].append(..); final_data['output'][split].append(..),
\* n times over
Line(str, rec) == [str |-> str, rec |-> rec]
AppendPairOutputToTrain(data, split, pair, rec, n) ==
    [data EXCEPT !["input"][split] = @ \o Times(Line(pair[1], rec), n),
                 !["output"]["train"] = @ \o Times(Line(pair[2], rec), n)]
AppendPairInputOnce(data, split, pair, rec, n) ==
    [data EXCEPT !["input"][split] = @ \o Times(Line(pair[1], rec), 1),
                 !["output"][split] = @ \o Times(Line(pair[2], rec), n)]
AppendPairInFront(data, split, pair, rec, n) ==
    [data EXCEPT !["input"][split] = Times(Line(pair[1], rec), n) \o @,
                 !["output"][split] = Times(Line(pair[2], rec), n) \o @]
AppendPair(data, split, pair, rec, n) ==
    [data EXCEPT !["input"][split] = @ \o Times(Line(pair[1], rec), n),
                 !["output"][split] = @ \o Times(Line(pair[2], rec), n)]

\* reformat_data_mapp: one sample
ReformatStep ==
    /\ pc = "reformat"
    /\ cursor < Len(Samples)
    /\ LET s == Samples[cursor + 1]
       IN  final_data' = AppendPair(final_data, s.split,
                             ReformatSample(s.sample_data, s.lang),
                             <<"mapp", cursor + 1>>, 1)
    /\ cursor' = cursor + 1
    /\ UNCHANGED <<pc, mapp_files, reader, all_data, langs, hi_tr_dev, n_dev, n_ma,
                   files, ma_log, mapp_data, hi_tr_dev0, probe>>

\* The three prints of reformat_data_mapp raise IndexError unless each list
\* has an element [2]
ExamplesPrint == \A io \in InOut, split \in Splits : Len(final_data[io][split]) >= 3

\* reformat_data_mapp: every sample done; print, and return final_data
ReformatReturn ==
    /\ pc = "reformat"
    /\ cursor = Len(Samples)
    /\ IF ExamplesPrint
       THEN pc' = "get_dev" /\ mapp_data' = final_data
       ELSE pc' = "error" /\ mapp_data' = mapp_data
    /\ UNCHANGED <<mapp_files, reader, all_data, langs, cursor, final_data, hi_tr_dev,
                   n_dev, n_ma, files, ma_log, hi_tr_dev0, probe>>

\* get_hi_tr_dev_mapp: one row of one of the dev files
DevReadRow(LANG, utt) ==
    /\ pc = "get_dev"
    /\ n_dev < MaxDevRows
    /\ hi_tr_dev' = [hi_tr_dev EXCEPT ![lower(LANG)] = Append(@, utt)]
    /\ n_dev' = n_dev + 1
    /\ UNCHANGED <<pc, mapp_files, reader, all_data, langs, cursor, final_data, n_ma,
                   files, ma_log, mapp_data, hi_tr_dev0, probe>>

\* get_hi_tr_dev_mapp: every file read; return hi_tr_dev
DevReturn ==
    /\ pc = "get_dev"
    /\ pc' = "import_ma"
    /\ hi_tr_dev0' = hi_tr_dev
    /\ UNCHANGED <<mapp_files, reader, all_data, langs, cursor, final_data, hi_tr_dev,
                   n_dev, n_ma, files, ma_log, mapp_data, probe>>

HI_TIMES == 3
TR_TIMES == 7

\* lang = 'hi' if lang == 'Hindi' else 'tr'
MaLang(Language) == IF Language = Hindi THEN HI ELSE TR

\* hi_tr_dev[lang].remove(noneng_utt)
ConsumeAll(dev, lang, noneng_utt) ==
    [dev EXCEPT ![lang] = SelectSeq(@, LAMBDA u : u # noneng_utt)]
ConsumeNone(dev, lang, noneng_utt) == dev
Consume(dev, lang, noneng_utt) == [dev EXCEPT ![lang] = remove(@, noneng_utt)]

\* noneng_utt in hi_tr_dev[lang]
DevMatch(dev, lang, noneng_utt) == In(noneng_utt, dev[lang])

Logged(Language, split, row, route) ==
    [lang |-> MaLang(Language), split |-> split, utt |-> row.utt, route |-> route]

\* data_import_ma: one row of one of the MultiATIS files, through the if/elif chain
MaReadRow(Language, split, row) ==
    /\ pc = "import_ma"
    /\ n_ma < MaxMaRows
    /\ LET lang == MaLang(Language)
           pair == MaFormatRow(row, lang)
           noneng_utt == row.utt
           rec == <<"ma", n_ma + 1>>
       IN  \/ /\ DevMatch(hi_tr_dev, lang, noneng_utt)
              /\ final_data' = AppendPair(final_data, "dev", pair, rec, 1)
              /\ hi_tr_dev' = Consume(hi_tr_dev, lang, noneng_utt)
              /\ ma_log' = Append(ma_log, Logged(Language, split, row, "dev_match"))
           \/ /\ ~DevMatch(hi_tr_dev, lang, noneng_utt)
              /\ lang = HI /\ split = "train"
              /\ final_data' = AppendPair(final_data, split, pair, rec, HI_TIMES)
              /\ hi_tr_dev' = hi_tr_dev
              /\ ma_log' = Append(ma_log, Logged(Language, split, row, "hi_train"))
           \/ /\ ~DevMatch(hi_tr_dev, lang, noneng_utt)
              /\ ~(lang = HI /\ split = "train")
              /\ lang = TR /\ split = "train"
              /\ final_data' = AppendPair(final_data, split, pair, rec, TR_TIMES)
              /\ hi_tr_dev' = hi_tr_dev
              /\ ma_log' = Append(ma_log, Logged(Language, split, row, "tr_train"))
           \/ /\ ~DevMatch(hi_tr_dev, lang, noneng_utt)
              /\ ~(lang = HI /\ split = "train")
              /\ ~(lang = TR /\ split = "train")
              /\ final_data' = AppendPair(final_data, split, pair, rec, 1)
              /\ hi_tr_dev' = hi_tr_dev
              /\ ma_log' = Append(ma_log, Logged(Language, split, row, "own_split"))
    /\ n_ma' = n_ma + 1
    /\ UNCHANGED <<pc, mapp_files, reader, all_data, langs, cursor, n_dev, files,
                   mapp_data, hi_tr_dev0, probe>>

\* data_import_ma: every file read; return final_data
MaReturn ==
    /\ pc = "import_ma"
    /\ pc' = "output"
    /\ UNCHANGED <<mapp_files, reader, all_data, langs, cursor, final_data, hi_tr_dev,
                   n_dev, n_ma, files, ma_log, mapp_data, hi_tr_dev0, probe>>

\* output_to_files, one file: f.write(line); f.write('\n') for each line
WrittenReversed(data) ==
    Flatten([i \in DOMAIN data |-> data[Len(data) + 1 - i].str \o <<"\n">>])
Written(data) == Flatten([i \in DOMAIN data |-> data[i].str \o <<"\n">>])

\* output_to_files: the six files
OutputToFiles ==
    /\ pc = "output"
    /\ files' = [io \in InOut |-> [split \in Splits |-> Written(final_data[io][split])]]
    /\ pc' = "done"
    /\ UNCHANGED <<mapp_files, reader, all_data, langs, cursor, final_data, hi_tr_dev,
                   n_dev, n_ma, ma_log, mapp_data, hi_tr_dev0, probe>>

Next ==
    \/ MappOpenFile
    \/ MappReadRow
    \/ MappReturn
    \/ ReformatStep
    \/ ReformatReturn
    \/ \E LANG \in DevLANGs, utt \in DevUtts : DevReadRow(LANG, utt)
    \/ DevReturn
    \/ \E Language \in MaLanguages, split \in Splits, row \in MaRows :
           MaReadRow(Language, split, row)
    \/ MaReturn
    \/ OutputToFiles

Spec == Init /\ [][Next]_vars

----------------------------------------------------------------------------
(* The formatting code on its own: one record through the loader's row, the *)
(* reformatter's loop body or the merger's row                              *)

MaxUttLen == 3        \* characters of a probed utterance
MaxSlotsLen == 3      \* characters of a probed slot-label string
MaxIntentParts == 3   \* pieces a probed intent is put together from

Strings(chars, n) == UNION {[1..k -> chars] : k \in 0..n}
Utterances == Strings({"a", "B", " "}, MaxUttLen)
SlotStrings == Strings({"O", "X", " "}, MaxSlotsLen)
IntentParts == {ATIS_, <<"f">>, <<"+">>, <<"a", "t">>, <<"i", "s", "_">>, ATIS_ \o <<"f">>}
Intents == {Flatten(ps) : ps \in UNION {[1..k -> IntentParts] : k \in 0..MaxIntentParts}}
EN == <<"e", "n">>

\* 'flights from boston to denver'
ExUtt ==
    <<"f", "l", "i", "g", "h", "t", "s", " ", "f", "r", "o", "m", " ", "b", "o", "s",
      "t", "o", "n", " ", "t", "o", " ", "d", "e", "n", "v", "e", "r">>
\* 'O O B-fromloc.city_name O B-toloc.city_name'
ExSlots ==
    <<"O", " ", "O", " ", "B", "-", "f", "r", "o", "m", "l", "o", "c", ".", "c", "i",
      "t", "y", "_", "n", "a", "m", "e", " ", "O", " ", "B", "-", "t", "o", "l", "o",
      "c", ".", "c", "i", "t", "y", "_", "n", "a", "m", "e">>
\* 'atis_flight'
ExIntent ==
    <<"a", "t", "i", "s", "_", "f", "l", "i", "g", "h", "t">>
\* 'boston <B-fromloc.city_name> denver <B-toloc.city_name> <intent-flight> <lang-en>'
ExOut ==
    <<"b", "o", "s", "t", "o", "n", " ", "<", "B", "-", "f", "r", "o", "m", "l", "o",
      "c", ".", "c", "i", "t", "y", "_", "n", "a", "m", "e", ">", " ", "d", "e", "n",
      "v", "e", "r", " ", "<", "B", "-", "t", "o", "l", "o", "c", ".", "c", "i", "t",
      "y", "_", "n", "a", "m", "e", ">", " ", "<", "i", "n", "t", "e", "n", "t", "-",
      "f", "l", "i", "g", "h", "t", ">", " ", "<", "l", "a", "n", "g", "-", "e", "n",
      ">">>

\* <<utterance, slot labels, intent>> of the probed rows
ProbeRows ==
    (Utterances \X SlotStrings \X {I_f})
        \cup ({U_Ba} \X {T_XO} \X Intents)
        \cup {<<ExUtt, ExSlots, ExIntent>>}

InitFmt ==
    /\ pc = "format"
    /\ mapp_files = <<>>
    /\ reader = NoFile
    /\ all_data = <<>>
    /\ langs = <<>>
    /\ cursor = 0
    /\ final_data = Empty
    /\ hi_tr_dev = [lang \in {HI, TR} |-> <<>>]
    /\ n_dev = 0
    /\ n_ma = 0
    /\ files = Empty
    /\ ma_log = <<>>
    /\ mapp_data = Empty
    /\ hi_tr_dev0 = [lang \in {HI, TR} |-> <<>>]
    /\ probe = NoProbe

\* A row through data_import_mapp and then reformat_data_mapp
MappProbe(r, lang) ==
    LET opened == << <<lang, << <<"test", <<>> >> >> >> >>
        loaded == LoadRow(opened, lang, "test", <<1007, r[1], r[2], r[3]>>)
        sample_data == DictGet(DictGet(DictGet(loaded, lang), "test"), 1007)
    IN  [op |-> "mapp", utt |-> r[1], slots |-> r[2], intent |-> r[3],
         lang |-> lang, sample_data |-> sample_data,
         pair |-> ReformatSample(sample_data, lang)]

FmtMappRow ==
    /\ pc = "format"
    /\ probe = NoProbe
    /\ \E r \in ProbeRows, lang \in {DE, EN} : probe' = MappProbe(r, lang)
    /\ UNCHANGED pipeline

\* A row through data_import_ma up to the routing
MaProbe(r, Language) ==
    LET row == [intent |-> r[3], utt |-> r[1], slots |-> r[2]]
    IN  [op |-> "ma", utt |-> r[1], slots |-> r[2], intent |-> r[3],
         lang |-> MaLang(Language), sample_data |-> <<>>,
         pair |-> MaFormatRow(row, MaLang(Language))]

FmtMaRow ==
    /\ pc = "format"
    /\ probe = NoProbe
    /\ \E r \in ProbeRows, Language \in MaLanguages : probe' = MaProbe(r, Language)
    /\ UNCHANGED pipeline

NextFmt ==
    \/ FmtMappRow
    \/ FmtMaRow

SpecFmt == InitFmt /\ [][NextFmt]_vars

----------------------------------------------------------------------------
(* What the claims are stated with.  These definitions describe results;    *)
(* none of them is used by the actions above.                               *)

MergePcs == {"import_ma", "output", "done"}

\* The n-th smallest member of a finite set of integers
Nth(K, n) == CHOOSE i \in K : Cardinality({k \in K : k <= i}) = n

\* The members of s at the positions K, in order
Pick(s, K) == [n \in 1..Cardinality(K) |-> s[Nth(K, n)]]

Count(x, list) == Cardinality({i \in DOMAIN list : list[i] = x})

IsPrefix(a, b) == Len(a) <= Len(b) /\ SubSeq(b, 1, Len(a)) = a

EndsWith(s, t) == Len(t) <= Len(s) /\ SubSeq(s, Len(s) - Len(t) + 1, Len(s)) = t

\* The positions of x inside an occurrence of 'atis_'
InAtis(x) ==
    {i \in 1..Len(x) :
        \E p \in 1..i :
            /\ i <= p + 4
            /\ p + 4 <= Len(x)
            /\ x[p] = "a" /\ x[p + 1] = "t" /\ x[p + 2] = "i" /\ x[p + 3] = "s"
            /\ x[p + 4] = "_"}

\* x with every occurrence of 'atis_' taken out
WithoutAtis(x) == Pick(x, (1..Len(x)) \ InAtis(x))

\* x with 'atis_' taken from its front only
WithoutPrefix(x) ==
    IF Len(x) >= 5 /\ SubSeq(x, 1, 5) = <<"a", "t", "i", "s", "_">>
    THEN SubSeq(x, 6, Len(x))
    ELSE x

\* The whitespace tokens of s: its maximal runs of other characters
TokenStarts(s) ==
    {i \in 1..Len(s) : s[i] \notin {" ", "\t", "\n"} /\ (i = 1 \/ s[i - 1] \in {" ", "\t", "\n"})}
TokenEnd(s, i) ==
    CHOOSE j \in i..Len(s) :
        /\ \A k \in i..j : s[k] \notin {" ", "\t", "\n"}
        /\ j = Len(s) \/ s[j + 1] \in {" ", "\t", "\n"}
Tokens(s) ==
    [n \in 1..Cardinality(TokenStarts(s)) |->
        SubSeq(s, Nth(TokenStarts(s), n), TokenEnd(s, Nth(TokenStarts(s), n)))]

RECURSIVE JoinSpace(_)
JoinSpace(items) ==
    IF items = <<>> THEN <<>>
    ELSE IF Len(items) = 1 THEN items[1]
    ELSE items[1] \o <<" ">> \o JoinSpace(Tail(items))

\* The positions, up to the shorter of the two, whose tag is not 'O'
Kept(tokens, tags) ==
    {i \in 1..Len(tokens) : i <= Len(tags) /\ tags[i] # <<"O">>}

\* The reference construction of the output line
RefOutput(utterance, slot_tags, intent, language) ==
    LET tokens == Tokens(utterance)
        tags == Tokens(slot_tags)
        kept == Kept(tokens, tags)
        items == [m \in 1..Cardinality(kept) |->
                    tokens[Nth(kept, m)] \o <<" ", "<">> \o tags[Nth(kept, m)] \o <<">">>]
    IN  JoinSpace(items \o << <<"<", "i", "n", "t", "e", "n", "t", "-">> \o intent \o <<">">>,
                              <<"<", "l", "a", "n", "g", "-">> \o language \o <<">">> >>)

\* The 'token <tag>' pairs of an output line: all its tokens but the two markers
NumPairs(outstr) == (Len(Tokens(outstr)) - 2) \div 2

Probed == probe.op \in {"mapp", "ma"}

\* The lines of a written file
NewLines(f) == {i \in 1..Len(f) : f[i] = "\n"}
\* The characters of a file before its n-th line, each line ending in a newline
RECURSIVE Before(_, _)
Before(lines, n) == IF n = 1 THEN 0 ELSE Before(lines, n - 1) + Len(lines[n - 1].str) + 1

\* The file f holds the lines, in their order, one to a line, and nothing else
HoldsLines(f, lines) ==
    /\ Len(f) = Before(lines, Len(lines) + 1)
    /\ \A n \in DOMAIN lines :
          /\ SubSeq(f, Before(lines, n) + 1, Before(lines, n) + Len(lines[n].str)) = lines[n].str
          /\ f[Before(lines, n + 1)] = "\n"

\* How many lines of a list were made from record rec
Copies(io, split, rec) ==
    Cardinality({i \in DOMAIN final_data[io][split] : final_data[io][split][i].rec = rec})

\* The MultiATIS rows before row k with its language and utterance
Earlier(k) ==
    Cardinality({j \in 1..(k - 1) :
        ma_log[j].lang = ma_log[k].lang /\ ma_log[j].utt = ma_log[k].utt})

\* Row k found no entry for its utterance left in its language's dev set:
\* the set held it N times when the merge started and N rows came before
Unmatched(k) == Earlier(k) >= Count(ma_log[k].utt, hi_tr_dev0[ma_log[k].lang])

LoggedUtts == {ma_log[k].utt : k \in DOMAIN ma_log} \cup DevUtts

----------------------------------------------------------------------------
(* The claims                                                              *)

\* C1: dev matching is consume-once.  For each language and utterance u held
\* N times by the dev set when the merge starts, at most N rows with u are
\* routed to dev by the match, each match takes one occurrence of u out of
\* the set, exactly the first N such rows match, and a later one goes by the
\* train-oversampling / own-split rule instead.
C1_ConsumeOnce ==
    pc \in MergePcs =>
        /\ \A lang \in {HI, TR}, u \in LoggedUtts :
              LET N == Count(u, hi_tr_dev0[lang])
                  M == Cardinality({k \in DOMAIN ma_log :
                           /\ ma_log[k].lang = lang
                           /\ ma_log[k].utt = u
                           /\ ma_log[k].route = "dev_match"})
              IN  M <= N /\ Count(u, hi_tr_dev[lang]) = N - M
        /\ \A k \in DOMAIN ma_log :
              LET e == ma_log[k] IN
              /\ (e.route = "dev_match") <=> ~Unmatched(k)
              /\ e.route = "dev_match" => Copies("input", "dev", <<"ma", k>>) = 1
              /\ Unmatched(k) =>
                    /\ e.route = IF e.lang = HI /\ e.split = "train" THEN "hi_train"
                                 ELSE IF e.lang = TR /\ e.split = "train" THEN "tr_train"
                                 ELSE "own_split"
                    /\ Copies("input", "dev", <<"ma", k>>) = IF e.split = "dev" THEN 1 ELSE 0
                    /\ Copies("input", e.split, <<"ma", k>>) >= 1

\* C1's case: the Hindi set held an utterance once, two Hindi test rows had
\* it; the first went to dev by the match and the second to test.
C1_Witness ==
    /\ pc \in MergePcs
    /\ Len(ma_log) = 2
    /\ ma_log[1].lang = HI /\ ma_log[2].lang = HI
    /\ ma_log[1].utt = ma_log[2].utt
    /\ ma_log[1].split = "test" /\ ma_log[2].split = "test"
    /\ Count(ma_log[1].utt, hi_tr_dev0[HI]) = 1
    /\ ma_log[1].route = "dev_match" /\ ma_log[2].route = "own_split"
    /\ Copies("input", "dev", <<"ma", 1>>) = 1
    /\ Copies("input", "test", <<"ma", 2>>) = 1

\* C2: a Hindi train row that found no dev entry has exactly 3 identical
\* copies of its pair in the train lists, a Turkish one exactly 7, and the
\* written train files hold the lists' lines.
C2_Oversampling ==
    pc \in MergePcs =>
        /\ \A k \in DOMAIN ma_log :
              (Unmatched(k) /\ ma_log[k].split = "train") =>
                  LET n == IF ma_log[k].lang = HI THEN 3 ELSE 7
                      from_k(io, split) ==
                          {i \in DOMAIN final_data[io][split] :
                              final_data[io][split][i].rec = <<"ma", k>>}
                  IN  /\ \A io \in InOut :
                            /\ Cardinality(from_k(io, "train")) = n
                            /\ from_k(io, "dev") = {} /\ from_k(io, "test") = {}
                            /\ \A i, j \in from_k(io, "train") :
                                  final_data[io]["train"][i] = final_data[io]["train"][j]
                      /\ \A i \in from_k("input", "train") :
                            final_data["input"]["train"][i].str = ma_log[k].utt
                      /\ from_k("input", "train") = from_k("output", "train")
        /\ pc = "done" =>
              \A io \in InOut : HoldsLines(files[io]["train"], final_data[io]["train"])

\* C2's case: an unmatched Hindi train row and an unmatched Turkish train
\* row have been merged and written.
C2_Witness ==
    /\ pc = "done"
    /\ \E k, m \in DOMAIN ma_log :
          /\ ma_log[k].lang = HI /\ ma_log[k].split = "train" /\ Unmatched(k)
          /\ ma_log[m].lang = TR /\ ma_log[m].split = "train" /\ Unmatched(m)
          /\ Copies("input", "train", <<"ma", k>>) = 3
          /\ Copies("output", "train", <<"ma", m>>) = 7

\* C3: for each split the input list and the output list have the same
\* length and their i-th lines come from the same record, after every record
\* of either stage; the written <split>.input and <split>.output have the
\* same number of lines.
C3_LineAligned ==
    \A split \in Splits :
        /\ Len(final_data["input"][split]) = Len(final_data["output"][split])
        /\ \A i \in DOMAIN final_data["input"][split] :
              final_data["input"][split][i].rec = final_data["output"][split][i].rec
        /\ pc = "done" =>
              /\ Cardinality(NewLines(files["input"][split]))
                    = Cardinality(NewLines(files["output"][split]))
              /\ Cardinality(NewLines(files["input"][split]))
                    = Len(final_data["input"][split])

\* C3's case: rows of both corpora are in the lists, one MultiATIS row routed
\* to dev by a match and one oversampled, and the files are written.
C3_Witness ==
    /\ pc = "done"
    /\ \E k, m \in DOMAIN ma_log :
          ma_log[k].route = "dev_match" /\ ma_log[m].route = "tr_train"
    /\ Len(final_data["output"]["train"]) = 10
    /\ Len(final_data["output"]["dev"]) = 4

\* C4: no input line of any split has an uppercase character: the merger, as
\* the reformatter, puts the lowercased utterance in the input list.
C4_InputsLowercased ==
    \A split \in Splits :
        \A i \in DOMAIN final_data["input"][split] :
            \A j \in DOMAIN final_data["input"][split][i].str :
                final_data["input"][split][i].str[j] \notin DOMAIN Upper

\* C5 as stated: the intent in the <intent-...> marker is the source intent
\* with 'atis_' removed from its front and the rest left as it is; an intent
\* without that prefix is left unchanged.
C5_PrefixOnly ==
    Probed =>
        EndsWith(probe.pair[2],
                 INTENT_OPEN \o WithoutPrefix(probe.intent) \o LANG_OPEN \o probe.lang \o <<">">>)

\* C5 as amended: in the loader and in the merger the intent in the
\* <intent-...> marker is the source intent with every occurrence of 'atis_'
\* removed, wherever it stands; an intent that does not contain 'atis_' is
\* left unchanged.
C5_EveryOccurrence ==
    Probed =>
        /\ EndsWith(probe.pair[2],
                    INTENT_OPEN \o WithoutAtis(probe.intent) \o LANG_OPEN \o probe.lang
                        \o <<">">>)
        /\ probe.op = "mapp" => probe.sample_data[3] = WithoutAtis(probe.intent)
        /\ InAtis(probe.intent) = {} =>
              EndsWith(probe.pair[2],
                       INTENT_OPEN \o probe.intent \o LANG_OPEN \o probe.lang \o <<">">>)

\* C5's case: the loader has read the intent 'atis_+atis_f', and has stored
\* '+f', which the reformatter has put in the marker.
C5_Witness ==
    /\ probe.op = "mapp"
    /\ probe.intent = ATIS_ \o <<"+">> \o ATIS_ \o <<"f">>
    /\ probe.sample_data[3] = <<"+", "f">>
    /\ EndsWith(probe.pair[2], INTENT_OPEN \o <<"+", "f">> \o LANG_OPEN \o probe.lang \o <<">">>)

C7_PairsAtMostTokens ==
    Probed =>
        /\ NumPairs(probe.pair[2]) <= Len(Tokens(probe.pair[1]))
        /\ NumPairs(probe.pair[2])
              = Cardinality(Kept(Tokens(probe.utt), Tokens(probe.slots)))

\* C7's case: the merger has formatted an utterance of one token with two
\* tags, neither 'O', into one pair.
C7_Witness ==
    /\ probe.op = "ma"
    /\ Len(Tokens(probe.utt)) = 1
    /\ Len(Tokens(probe.slots)) = 2
    /\ \A i \in 1..2 : Tokens(probe.slots)[i] # <<"O">>
    /\ NumPairs(probe.pair[2]) = 1

\* C8: a MultiATIS row whose utterance is in no entry left of its language's
\* dev set and whose source split is not 'train' is appended once to the
\* input and output lists of its own split; the other splits' lists and the
\* dev set stay as they were.
C8_OwnSplit ==
    [][(pc = "import_ma" /\ n_ma' = n_ma + 1) =>
          LET e == ma_log'[Len(ma_log')] IN
          ((\A i \in DOMAIN hi_tr_dev[e.lang] : hi_tr_dev[e.lang][i] # e.utt)
              /\ e.split # "train") =>
                /\ \A io \in InOut :
                      /\ Len(final_data'[io][e.split]) = Len(final_data[io][e.split]) + 1
                      /\ IsPrefix(final_data[io][e.split], final_data'[io][e.split])
                      /\ final_data'[io][e.split][Len(final_data'[io][e.split])].rec
                            = <<"ma", n_ma'>>
                      /\ \A split \in Splits \ {e.split} :
                            final_data'[io][split] = final_data[io][split]
                /\ final_data'["input"][e.split][Len(final_data'["input"][e.split])].str = e.utt
                /\ hi_tr_dev' = hi_tr_dev]_vars

\* C8's case: with an entry left in its language's dev set, a row of a dev
\* source file that matched nothing is once in the dev lists.
C8_Witness ==
    /\ pc \in MergePcs
    /\ \E k \in DOMAIN ma_log :
          /\ ma_log[k].split = "dev"
          /\ ma_log[k].route = "own_split"
          /\ hi_tr_dev[ma_log[k].lang] # <<>>
          /\ Copies("input", "dev", <<"ma", k>>) = 1
          /\ Copies("output", "dev", <<"ma", k>>) = 1

\* C9: during the merge, for each language the entries left in the dev set
\* plus the rows of that language routed to dev by a match are the entries
\* the set started with; the set only loses entries, and only to rows of its
\* own language; a matched row is once in the dev lists and in no other
\* split, whatever its source file.
C9_Conservation ==
    pc \in MergePcs =>
        /\ \A lang \in {HI, TR} :
              LET matched == {k \in DOMAIN ma_log :
                                 ma_log[k].lang = lang /\ ma_log[k].route = "dev_match"}
              IN  /\ Len(hi_tr_dev[lang]) + Cardinality(matched) = Len(hi_tr_dev0[lang])
                  /\ \A u \in LoggedUtts :
                        Count(u, hi_tr_dev[lang]) + Cardinality({k \in matched : ma_log[k].utt = u})
                            = Count(u, hi_tr_dev0[lang])
        /\ \A k \in DOMAIN ma_log :
              ma_log[k].route = "dev_match" =>
                  \A io \in InOut :
                      /\ Copies(io, "dev", <<"ma", k>>) = 1
                      /\ Copies(io, "train", <<"ma", k>>) = 0
                      /\ Copies(io, "test", <<"ma", k>>) = 0

\* C9's case: the Hindi set started with the same utterance twice; a row of a
\* Hindi train file matched it, went to dev alone, and one entry is left.
C9_Witness ==
    /\ pc \in MergePcs
    /\ Len(hi_tr_dev0[HI]) = 2
    /\ hi_tr_dev0[HI][1] = hi_tr_dev0[HI][2]
    /\ Len(hi_tr_dev[HI]) = 1
    /\ \E k \in DOMAIN ma_log :
          /\ ma_log[k].lang = HI /\ ma_log[k].split = "train"
          /\ ma_log[k].route = "dev_match"
          /\ Copies("input", "dev", <<"ma", k>>) = 1
          /\ Copies("input", "train", <<"ma", k>>) = 0

\* The language of a line, read off the <lang-..> marker of its output line
LangAt(split, i) ==
    CHOOSE n \in DOMAIN langs :
        EndsWith(final_data["output"][split][i].str,
                 <<"<", "l", "a", "n", "g", "-">> \o langs[n] \o <<">">>)

C10_Ordered ==
    pc \in MergePcs =>
        \A io \in InOut, split \in Splits :
            LET lines == final_data[io][split]
                first == Len(mapp_data[io][split])
            IN  /\ IsPrefix(mapp_data[io][split], lines)
                /\ \A i \in 1..first : lines[i].rec[1] = "mapp"
                /\ \A i \in 1..(first - 1) : LangAt(split, i) <= LangAt(split, i + 1)
                /\ \A i \in (first + 1)..Len(lines) : lines[i].rec[1] = "ma"
                /\ \A i \in (first + 1)..(Len(lines) - 1) :
                      lines[i].rec[2] <= lines[i + 1].rec[2]
                /\ pc = "done" => HoldsLines(files[io][split], lines)

C10_AppendOnly ==
    pc \in MergePcs =>
        \A io \in InOut, split \in Splits :
            IsPrefix(final_data[io][split], final_data'[io][split])

\* C10: the merger only appends.  In each of the six lists the MultiATIS++
\* lines, as the reformatter left them and in language-list order, come
\* first; the MultiATIS lines follow in processing order, the copies of one
\* row next to each other; no step of the merger changes a line already in a
\* list; and each written file holds its list's lines in that order.  (The
\* order is required of the state every step leads to; no initial state is
\* in the merge.)
C10_AppendOnlyInOrder == [][C10_AppendOnly /\ C10_Ordered']_vars

\* C10's case: written lists in which the English line follows the German
\* ones though its file was read before theirs, and seven copies of a
\* Turkish row follow three of a Hindi row.
C10_Witness ==
    /\ pc = "done"
    /\ langs = <<DE, EN>>
    /\ Len(mapp_data["input"]["test"]) = 4
    /\ LangAt("test", 4) = 2
    /\ Len(ma_log) = 2
    /\ ma_log[1].route = "hi_train" /\ ma_log[2].route = "tr_train"
    /\ Len(final_data["input"]["train"]) = 13

====
